---------------------------- MODULE Spec2Model ----------------------------
(***************************************************************************)
(* facepy.graph_api.GraphAPI: a client of Facebook's Graph API.            *)
(*                                                                         *)
(* The state is each client's oauth_token, the dictionary that is the      *)
(* default value of _query's data parameter (one object per process,       *)
(* created when the def statement runs, shared by every call that passes   *)
(* no data), and a record of the last call: its arguments, the HTTP        *)
(* requests it issued and how it ended.  One action per public method,     *)
(* each the whole method: _query, the transport's answer and _parse.       *)
(***************************************************************************)
EXTENDS Integers, Sequences, FiniteSets, TLC

VARIABLES oauth_token, default_data, last

vars == <<oauth_token, default_data, last>>

(***************************************************************************)
(* Bounds of the model.                                                    *)
(***************************************************************************)
\* longest list of strings a caller passes as a parameter value
MaxList == 2
\* most keys in a caller's parameter mapping (**options, **data)
MaxOptions == 2

(***************************************************************************)
(* Python values.  A value is a record tagged with its type.               *)
(***************************************************************************)
None == [t |-> "none"]
PyBool(b) == [t |-> "bool", b |-> b]
PyInt(n) == [t |-> "int", n |-> n]
PyStr(s) == [t |-> "str", s |-> s]
PyUnicode(s) == [t |-> "unicode", u |-> s]
PyList(v) == [t |-> "list", v |-> v]
PyTuple(v) == [t |-> "tuple", v |-> v]
PyDict(d) == [t |-> "dict", d |-> d]
\* a client that has not been constructed
Unbound == [t |-> "unbound"]
\* what a call that raised hands back
NoValue == [t |-> "novalue"]

EmptyDict == [k \in {} |-> None]

\* Python's truth value of the values a constructor argument can be
Truthy(v) ==
    CASE v.t = "none" -> FALSE
      [] v.t = "str" -> v.s # ""
      [] v.t = "unicode" -> v.u # ""
      [] v.t = "bool" -> v.b
      [] v.t = "int" -> v.n # 0
      [] v.t \in {"list", "tuple"} -> Len(v.v) > 0
      [] v.t = "dict" -> DOMAIN v.d # {}
      [] OTHER -> FALSE

\* dict.update: d with e's items laid over it
Update(d, e) ==
    [k \in DOMAIN d \cup DOMAIN e |-> IF k \in DOMAIN e THEN e[k] ELSE d[k]]

Digit(n) == <<"0", "1", "2", "3", "4", "5", "6", "7", "8", "9">>[n + 1]

RECURSIVE IntStr(_)
\* str() of a non-negative int
IntStr(n) == IF n < 10 THEN Digit(n) ELSE IntStr(n \div 10) \o Digit(n % 10)

RECURSIVE JoinStrings(_, _)
\* sep.join(seq) for a sequence of character strings
JoinStrings(sep, seq) ==
    IF seq = <<>> THEN ""
    ELSE IF Len(seq) = 1 THEN seq[1]
    ELSE seq[1] \o sep \o JoinStrings(sep, Tail(seq))

\* repr() of a list or tuple item (strings are taken to hold no quote)
repr(v) ==
    CASE v.t = "str" -> "'" \o v.s \o "'"
      [] v.t = "unicode" -> "u'" \o v.u \o "'"
      [] v.t = "int" -> IntStr(v.n)
      [] v.t = "bool" -> IF v.b THEN "True" ELSE "False"
      [] OTHER -> "None"

\* str() of a parameter value, as urllib.urlencode (doseq=0) takes it
str(v) ==
    CASE v.t = "str" -> v.s
      [] v.t = "unicode" -> v.u
      [] v.t = "int" -> IntStr(v.n)
      [] v.t = "bool" -> IF v.b THEN "True" ELSE "False"
      [] v.t = "list" ->
            "[" \o JoinStrings(", ", [i \in 1..Len(v.v) |-> repr(v.v[i])]) \o "]"
      [] v.t = "tuple" ->
            IF Len(v.v) = 1 THEN "(" \o repr(v.v[1]) \o ",)"
            ELSE "(" \o JoinStrings(", ", [i \in 1..Len(v.v) |-> repr(v.v[i])]) \o ")"
      [] OTHER -> "None"

(***************************************************************************)
(* How a call ends: it returns a value or raises.                          *)
(***************************************************************************)
Return(v) == [outcome |-> "return", value |-> v, message |-> None]
Raise(kind, msg) == [outcome |-> kind, value |-> NoValue, message |-> msg]

(***************************************************************************)
(* A path is held as urlparse splits it: the text before '?' and the       *)
(* query string cut at '&' and '=' into <<key, value>> pairs.              *)
(***************************************************************************)
Path(base, qs) == [base |-> base, qs |-> qs]

\* the path as text, as '%s' formats it
PathText(path) ==
    IF path.qs = <<>> THEN path.base
    ELSE path.base \o "?" \o
         JoinStrings("&", [i \in 1..Len(path.qs) |-> path.qs[i][1] \o "=" \o path.qs[i][2]])

\* urlparse.parse_qs(query): each key's non-blank values, in order, as a list
\* (keep_blank_values is left at 0, so a pair with an empty value is dropped)
parse_qs(qs) ==
    LET kept == SelectSeq(qs, LAMBDA p : p[2] # "")
        of(k) == SelectSeq(kept, LAMBDA p : p[1] = k)
    IN  [k \in {kept[i][1] : i \in 1..Len(kept)} |->
            PyList([i \in 1..Len(of(k)) |-> PyStr(of(k)[i][2])])]

\* urllib.urlencode(params): each value goes through str() before it is quoted.
\* The query is held as the server reads it back, percent-decoded.
urlencode(params) == [k \in DOMAIN params |-> str(params[k])]

\* type(value) is list and all([type(item) in (str, unicode) for item in value])
IsStringList(value) ==
    /\ value.t = "list"
    /\ \A i \in 1..Len(value.v) : value.v[i].t \in {"str", "unicode"}

\* ','.join(value)
JoinList(value) ==
    PyStr(JoinStrings(",", [i \in 1..Len(value.v) |->
                               IF value.v[i].t = "str" THEN value.v[i].s ELSE value.v[i].u]))

\* ConvertLists with the loop left out
ConvertLists_Skipped(data) == data

\* the loop of _query that turns option lists into comma-separated values
ConvertLists(data) ==
    [k \in DOMAIN data |-> IF IsStringList(data[k]) THEN JoinList(data[k]) ELSE data[k]]

\* AddToken with the update turned round: a caller's access_token survives
AddToken_CallerWins(token, data) ==
    IF Truthy(token) THEN Update([k \in {"access_token"} |-> token], data) ELSE data

\* data.update({'access_token': self.oauth_token}) when the token is true
AddToken(token, data) ==
    IF Truthy(token) THEN Update(data, [k \in {"access_token"} |-> token]) ELSE data

(***************************************************************************)
(* json.loads over the response bodies of the model: the value a body      *)
(* decodes to, or no value when the decoder raises ValueError.             *)
(***************************************************************************)
Decoded(v) == [ok |-> TRUE, v |-> v]
ValueError == [ok |-> FALSE]

ErrorEnvelope == [k \in {"message"} |-> PyUnicode("bad token")]

json_loads(text) ==
    CASE text = "true" -> Decoded(PyBool(TRUE))
      [] text = "false" -> Decoded(PyBool(FALSE))
      [] text = "null" -> Decoded(None)
      [] text = "3" -> Decoded(PyInt(3))
      [] text = "\"me\"" -> Decoded(PyUnicode("me"))
      [] text = "[1, 2, 3]" -> Decoded(PyList(<<PyInt(1), PyInt(2), PyInt(3)>>))
      [] text = "{\"id\": \"1\"}" ->
            Decoded(PyDict([k \in {"id"} |-> PyUnicode("1")]))
      [] text = "{\"data\": [1, 2, 3], \"paging\": {}}" ->
            Decoded(PyDict([k \in {"data", "paging"} |->
                IF k = "data" THEN PyList(<<PyInt(1), PyInt(2), PyInt(3)>>)
                ELSE PyDict(EmptyDict)]))
      [] text = "{\"data\": false}" ->
            Decoded(PyDict([k \in {"data"} |-> PyBool(FALSE)]))
      [] text = "{\"error\": {\"message\": \"bad token\"}}" ->
            Decoded(PyDict([k \in {"error"} |-> PyDict(ErrorEnvelope)]))
      [] text = "{\"error\": {\"message\": \"bad token\"}, \"data\": []}" ->
            Decoded(PyDict([k \in {"error", "data"} |->
                IF k = "error" THEN PyDict(ErrorEnvelope) ELSE PyList(<<>>)]))
      [] text = "{\"error\": {\"code\": 190}}" ->
            Decoded(PyDict([k \in {"error"} |->
                PyDict([j \in {"code"} |-> PyInt(190)])]))
      [] text = "{\"error\": \"denied\"}" ->
            Decoded(PyDict([k \in {"error"} |-> PyUnicode("denied")]))
      [] OTHER -> ValueError

\* data['error']['message'] and the exception it ends in
ErrorMessage(error) ==
    IF error.t = "dict"
    THEN IF "message" \in DOMAIN error.d
         THEN Raise("APIError", error.d["message"])
         ELSE Raise("KeyError", PyStr("message"))
    ELSE Raise("TypeError", None)

\* _parse with the data key looked at before the error key
_parse_DataBeforeError(data) ==
    LET j == json_loads(data)
    IN  IF ~j.ok THEN Return(PyStr(data))
        ELSE IF j.v.t = "bool" THEN Return(j.v)
        ELSE IF j.v.t = "dict"
             THEN IF "data" \in DOMAIN j.v.d THEN Return(j.v.d["data"])
                  ELSE IF "error" \in DOMAIN j.v.d THEN ErrorMessage(j.v.d["error"])
                  ELSE Return(j.v)
        ELSE Return(None)

\* _parse without the stripping of the data envelope
_parse_KeepsEnvelope(data) ==
    LET j == json_loads(data)
    IN  IF ~j.ok THEN Return(PyStr(data))
        ELSE IF j.v.t = "bool" THEN Return(j.v)
        ELSE IF j.v.t = "dict"
             THEN IF "error" \in DOMAIN j.v.d THEN ErrorMessage(j.v.d["error"])
                  ELSE Return(j.v)
        ELSE Return(None)

\* GraphAPI._parse: a value that is neither a bool nor a dict falls off the
\* end of the function, which returns None
_parse(data) ==
    LET j == json_loads(data)
    IN  IF ~j.ok THEN Return(PyStr(data))
        ELSE IF j.v.t = "bool" THEN Return(j.v)
        ELSE IF j.v.t = "dict"
             THEN IF "error" \in DOMAIN j.v.d THEN ErrorMessage(j.v.d["error"])
                  ELSE IF "data" \in DOMAIN j.v.d THEN Return(j.v.d["data"])
                  ELSE Return(j.v)
        ELSE Return(None)

(***************************************************************************)
(* The transport: requests.request answers with a body or raises.          *)
(***************************************************************************)
Content(text) == [ok |-> TRUE, content |-> text]
ConnectionError == [ok |-> FALSE]

\* the request _query hands to requests.request
Request(method, path, data) ==
    IF method \in {"GET", "DELETE"}
    THEN [method |-> method, base |-> path.base,
          query |-> urlencode(Update(parse_qs(path.qs), data)),
          path_qs |-> <<>>, has_data |-> FALSE, data |-> EmptyDict]
    ELSE [method |-> method, base |-> path.base,
          query |-> EmptyDict,
          path_qs |-> path.qs, has_data |-> TRUE, data |-> data]

\* GraphAPI._query: data as the call leaves it, the request, and the result
_query(token, method, path, data, response) ==
    LET sent == AddToken(token, ConvertLists(data))
    IN  [data |-> sent,
         request |-> Request(method, path, sent),
         result |-> IF response.ok THEN _parse(response.content)
                    ELSE Raise("ConnectionError", None)]

(***************************************************************************)
(* The signed-request parser (facepy.signed_request, not part of this      *)
(* file): the mappings it may return for a signed request and a secret.    *)
(***************************************************************************)
parse_signed_request(signed_request, app_secret) ==
    { EmptyDict,
      [k \in {"user_id"} |-> PyStr("100")],
      [k \in {"oauth_token", "user_id"} |->
          IF k = "oauth_token" THEN PyStr("tokB") ELSE PyStr("100")] }

\* UsesSignedRequest without the test of the explicit token
UsesSignedRequest_IgnoresToken(token, signed_request, app_secret) ==
    Truthy(signed_request) /\ Truthy(app_secret)

\* whether __init__ takes the signed-request branch
UsesSignedRequest(token, signed_request, app_secret) ==
    ~Truthy(token) /\ Truthy(signed_request) /\ Truthy(app_secret)

\* self.oauth_token as __init__ leaves it; sr is the parser's answer
InitToken(token, signed_request, app_secret, sr) ==
    IF UsesSignedRequest(token, signed_request, app_secret)
    THEN IF "oauth_token" \in DOMAIN sr THEN sr["oauth_token"] ELSE None
    ELSE token

(***************************************************************************)
(* The record of a call.                                                   *)
(***************************************************************************)
\* requests: the HTTP requests the call issued; responses: what the transport
\* answered; normalized: what _query handed back; result: how the call ended
Call(op, client, args, parser_calls, requests, responses, normalized, result) ==
    [op |-> op, client |-> client, args |-> args, parser_calls |-> parser_calls,
     requests |-> requests, responses |-> responses, normalized |-> normalized,
     result |-> result]

\* SUPPORTED_TYPES with 'place' left out
SUPPORTED_TYPES_NoPlace == {"post", "user", "page", "event", "group", "checkin"}

SUPPORTED_TYPES == {"post", "user", "page", "event", "group", "place", "checkin"}

SearchPath == Path("search", <<>>)

\* 'response is False' in get, post and delete
IsFalse(result) == result.outcome = "return" /\ result.value = PyBool(FALSE)

\* no call is under way: the caller has taken the last call's result
NoCall == Call("none", "none", EmptyDict, <<>>, <<>>, <<>>, Return(None), Return(None))

(***************************************************************************)
(* The operations.  The client is synchronous and blocking: a call starts  *)
(* when the one before it has handed back its result.                      *)
(***************************************************************************)
Clients == {"c1", "c2"}

Init ==
    /\ oauth_token = [c \in Clients |-> Unbound]
    /\ default_data = EmptyDict
    /\ last = NoCall

\* GraphAPI(oauth_token, signed_request, app_secret), the arguments drawn
\* from the given sets
Construct(c, tokens, signed_requests, app_secrets) ==
    /\ last = NoCall
    /\ oauth_token[c] = Unbound
    /\ \E token \in tokens, signed_request \in signed_requests, app_secret \in app_secrets :
         \E sr \in parse_signed_request(signed_request, app_secret) :
            /\ oauth_token' = [oauth_token EXCEPT
                                 ![c] = InitToken(token, signed_request, app_secret, sr)]
            /\ last' = Call("init", c,
                            [oauth_token |-> token, signed_request |-> signed_request,
                             app_secret |-> app_secret],
                            IF UsesSignedRequest(token, signed_request, app_secret)
                            THEN <<[signed_request |-> signed_request,
                                    app_secret |-> app_secret, sr |-> sr]>>
                            ELSE <<>>,
                            <<>>, <<>>, Return(None), Return(None))
    /\ UNCHANGED default_data

\* Checked without the test for False
Checked_PassesFalse(result, text) == result

\* what get, post and delete hand back: 'if response is False: raise self.Error'
Checked(result, text) ==
    IF IsFalse(result) THEN Raise("APIError", PyStr(text)) ELSE result

\* GraphAPI.get(path, **options)
Get(c, paths, optionss, responses) ==
    /\ last = NoCall
    /\ oauth_token[c] # Unbound
    /\ \E path \in paths, options \in optionss, response \in responses :
         LET q == _query(oauth_token[c], "GET", path, options, response)
         IN  last' = Call("get", c, [path |-> path, options |-> options], <<>>,
                          <<q.request>>, <<response>>, q.result,
                          Checked(q.result, "Could not get \"" \o PathText(path) \o "\"."))
    /\ UNCHANGED <<oauth_token, default_data>>

\* GraphAPI.post(path, **data)
Post(c, paths, datas, responses) ==
    /\ last = NoCall
    /\ oauth_token[c] # Unbound
    /\ \E path \in paths, data \in datas, response \in responses :
         LET q == _query(oauth_token[c], "POST", path, data, response)
         IN  last' = Call("post", c, [path |-> path, options |-> data], <<>>,
                          <<q.request>>, <<response>>, q.result,
                          Checked(q.result, "Could not post to \"" \o PathText(path) \o "\""))
    /\ UNCHANGED <<oauth_token, default_data>>

\* GraphAPI.delete(path): no data is passed, so _query works on, and writes
\* into, the dictionary that is its parameter's default value
Delete(c, paths, responses) ==
    /\ last = NoCall
    /\ oauth_token[c] # Unbound
    /\ \E path \in paths, response \in responses :
         LET q == _query(oauth_token[c], "DELETE", path, default_data, response)
         IN  /\ default_data' = q.data
             /\ last' = Call("delete", c, [path |-> path, options |-> EmptyDict], <<>>,
                             <<q.request>>, <<response>>, q.result,
                             Checked(q.result,
                                     "Could not delete \"" \o PathText(path) \o "\""))
    /\ UNCHANGED oauth_token

\* dict({'q': term, 'type': type}, **options)
SearchOptions(term, type, options) ==
    Update([k \in {"q", "type"} |-> IF k = "q" THEN term ELSE PyStr(type)], options)

\* GraphAPI.search(term, type, **options)
Search(c, terms, types, optionss, responses) ==
    /\ last = NoCall
    /\ oauth_token[c] # Unbound
    /\ \E term \in terms, type \in types, options \in optionss, response \in responses :
         LET args == [term |-> term, type |-> type, options |-> options]
             q == _query(oauth_token[c], "GET", SearchPath,
                         SearchOptions(term, type, options), response)
         IN  last' = IF type \notin SUPPORTED_TYPES
                     THEN Call("search", c, args, <<>>, <<>>, <<>>, Return(None),
                               Raise("ValueError", PyStr("Unsupported type")))
                     ELSE Call("search", c, args, <<>>, <<q.request>>, <<response>>,
                               q.result, q.result)
    /\ UNCHANGED <<oauth_token, default_data>>

\* the caller takes the result of the call; its record is dropped
Done ==
    /\ last # NoCall
    /\ last' = NoCall
    /\ UNCHANGED <<oauth_token, default_data>>

(***************************************************************************)
(* The inputs the operations are run on.                                   *)
(***************************************************************************)
Letter(i) == <<"a", "b", "c", "d", "e", "f">>[i]

\* the list ['a', 'b', ...] of n strings
StringList(n) == PyList([i \in 1..n |-> PyStr(Letter(i))])

\* parameter values: a string, a number, lists of strings, a list that is
\* not all strings, a tuple of strings
Values ==
    {PyStr("x"), PyInt(5), PyList(<<PyInt(5), PyStr("a")>>),
     PyTuple(<<PyStr("a"), PyStr("b")>>)}
    \cup {StringList(n) : n \in 0..MaxList}

OptionKeys == {"fields", "access_token", "q"}

\* the mappings of at most n keys
Mappings(keys, values, n) ==
    UNION {[ks -> values] : ks \in {s \in SUBSET keys : Cardinality(s) <= n}}

Options == Mappings(OptionKeys, Values, MaxOptions)

Paths ==
    {Path("me", <<>>),
     Path("me", <<<<"fields", "id">>>>),
     Path("me", <<<<"fields", "">>, <<"limit", "5">>>>),
     Path("me", <<<<"access_token", "other">>>>),
     Path("me", <<<<"fields", "id">>, <<"fields", "name">>>>)}

Terms == {PyStr("cafe")}

Types == {"user", "place", "invalid-type"}

Bodies ==
    {"true", "false", "null", "3", "\"me\"", "[1, 2, 3]", "{\"id\": \"1\"}",
     "{\"data\": [1, 2, 3], \"paging\": {}}", "{\"data\": false}",
     "{\"error\": {\"message\": \"bad token\"}}",
     "{\"error\": {\"message\": \"bad token\"}, \"data\": []}",
     "{\"error\": {\"code\": 190}}", "{\"error\": \"denied\"}",
     "plain text", ""}

Responses == {Content(b) : b \in Bodies} \cup {ConnectionError}

Tokens == {None, PyStr(""), PyStr("tokA")}

\* no parameters, and one list of strings
FewOptions == {EmptyDict, [k \in {"fields"} |-> StringList(MaxList)]}

\* every operation on the given inputs
Run(tokens, srs, secrets, paths, options, responses) ==
    \/ Done
    \/ \E c \in Clients :
        \/ Construct(c, tokens, srs, secrets)
        \/ Get(c, paths, options, responses)
        \/ Post(c, paths, options, responses)
        \/ Delete(c, paths, responses)
        \/ Search(c, Terms, Types, options, responses)

\* request construction: every path and parameter mapping, one response
Next ==
    Run(Tokens, {None}, {None}, Paths, Options, {Content("true")})

Spec == Init /\ [][Next]_vars

\* construction: every combination of constructor arguments
NextInit ==
    Run(Tokens, {None, PyStr(""), PyStr("blob")}, {None, PyStr(""), PyStr("secret")},
        {Path("me", <<>>)}, FewOptions, {Content("true")})

SpecInit == Init /\ [][NextInit]_vars

\* response handling: every response
NextParse ==
    Run({None, PyStr("tokA")}, {None}, {None}, Paths, FewOptions, Responses)

SpecParse == Init /\ [][NextParse]_vars

(***************************************************************************)
(* Properties.                                                             *)
(***************************************************************************)
Verbs == {"get", "post", "delete", "search"}

\* the last call is one of the four verbs, made by a constructed client
VerbCall == last.op \in Verbs

\* the client's token is set: a non-empty string
HasToken(c) == oauth_token[c].t = "str" /\ oauth_token[c].s # ""

\* the path and the caller's parameters of the last call
PathOf(call) == IF call.op = "search" THEN SearchPath ELSE call.args.path
PathKeys(call) == {PathOf(call).qs[i][1] : i \in 1..Len(PathOf(call).qs)}
CallerKeys(call) == DOMAIN call.args.options

\* the request carries access_token = token where the claim looks for it:
\* in the query string of a GET or DELETE, in the body of a POST
CarriesToken(req, token) ==
    IF req.method \in {"GET", "DELETE"}
    THEN "access_token" \in DOMAIN req.query /\ req.query["access_token"] = token.s
    ELSE "access_token" \in DOMAIN req.data /\ req.data["access_token"] = token

\* the request carries no access_token anywhere
CarriesNoToken(req) ==
    /\ "access_token" \notin DOMAIN req.query
    /\ "access_token" \notin DOMAIN req.data
    /\ \A i \in 1..Len(req.path_qs) : req.path_qs[i][1] # "access_token"

\* C1: every request of a client whose token is set carries access_token equal
\* to that token (query string for GET and DELETE, body for POST), whatever
\* the caller's parameters or the path's query string say and whatever calls
\* came before.
C1_TokenAlwaysTransmitted ==
    (VerbCall /\ HasToken(last.client)) =>
        \A i \in 1..Len(last.requests) :
            CarriesToken(last.requests[i], oauth_token[last.client])

\* a GET of a client with a token, after an earlier delete has written into the
\* shared default, whose path and whose options both name another access_token
C1_Witness ==
    /\ last.op = "get"
    /\ HasToken(last.client)
    /\ default_data # EmptyDict
    /\ "access_token" \in PathKeys(last)
    /\ "access_token" \in CallerKeys(last)
    /\ last.args.options["access_token"] # oauth_token[last.client]
    /\ Len(last.requests) = 1
    /\ last.requests[1].query["access_token"] = "tokA"

\* C2: a client constructed with no token sends no access_token, in any call
\* whose path and parameters do not name access_token, whatever calls this or
\* another client made before.
C2_NoTokenNoAccessToken ==
    (/\ VerbCall
     /\ oauth_token[last.client] = None
     /\ "access_token" \notin PathKeys(last)
     /\ "access_token" \notin CallerKeys(last)) =>
        \A i \in 1..Len(last.requests) : CarriesNoToken(last.requests[i])

\* a parameter value as the last call's request carries it under key k: the
\* text in the query string of a GET or DELETE, the value in the body of a POST
Sent(req, k) == IF req.method \in {"GET", "DELETE"} THEN req.query[k] ELSE req.data[k]

\* a value handed on as the caller gave it: itself in a POST body, its str()
\* text in a query string
Unchanged(req, v) == IF req.method \in {"GET", "DELETE"} THEN str(v) ELSE v

\* the elements of a list or tuple of strings joined with commas, in order
CommaJoined(req, v) ==
    LET text == JoinStrings(",", [i \in 1..Len(v.v) |-> v.v[i].s])
    IN  IF req.method \in {"GET", "DELETE"} THEN text ELSE PyStr(text)

\* a list of strings, the type the code tests for
IsListOfStrings(v) ==
    v.t = "list" /\ \A i \in 1..Len(v.v) : v.v[i].t = "str"

\* a sequence of strings: a list or a tuple whose items are all strings
IsSequenceOfStrings(v) ==
    v.t \in {"list", "tuple"} /\ \A i \in 1..Len(v.v) : v.v[i].t = "str"

\* the valid types, as the claim lists them
ClaimedTypes == {"post", "user", "page", "event", "group", "place", "checkin"}

\* the last call is a search that issued exactly one GET to 'search' carrying
\* type = type
OneSearchRequest ==
    /\ Len(last.requests) = 1
    /\ last.requests[1].method = "GET"
    /\ last.requests[1].base = "search"
    /\ last.requests[1].path_qs = <<>>
    /\ ~last.requests[1].has_data
    /\ {"q", "type"} \subseteq DOMAIN last.requests[1].query
    /\ last.requests[1].query["type"] = last.args.type

\* C5 as stated: a search with a type outside the set raises the validation
\* error and issues no request; with a type inside it issues exactly one GET
\* to 'search' with q = term and type = type.
C5_SearchAsStated ==
    last.op = "search" =>
        IF last.args.type \notin ClaimedTypes
        THEN last.requests = <<>> /\ last.result.outcome = "ValueError"
        ELSE OneSearchRequest /\ last.requests[1].query["q"] = last.args.term.s

\* C5 amended: as above, but q = term only when the caller's options do not
\* name q; when they do, q carries the caller's value.
C5_SearchValidatesFirst ==
    last.op = "search" =>
        IF last.args.type \notin ClaimedTypes
        THEN last.requests = <<>> /\ last.result.outcome = "ValueError"
        ELSE /\ OneSearchRequest
             /\ LET o == last.args.options
                    sent == last.requests[1].query["q"]
                IN  IF "q" \notin DOMAIN o THEN sent = last.args.term.s
                    ELSE IF IsListOfStrings(o["q"])
                         THEN sent = CommaJoined(last.requests[1], o["q"])
                         ELSE sent = Unchanged(last.requests[1], o["q"])

\* a search with an unsupported type has raised ValueError without a request
C5_Witness ==
    /\ last.op = "search"
    /\ last.args.type = "invalid-type"
    /\ last.requests = <<>>
    /\ last.responses = <<>>
    /\ last.result.outcome = "ValueError"

\* C6: for a GET or DELETE whose path has query parameters, the keys of the
\* request's query are the path's keys and the caller's keys (and access_token
\* when the client has a token); a key of both carries the caller's value, a
\* key of the path alone keeps the value it had in the path.
C6_QueryIsUnionOfPathAndCaller ==
    (last.op \in {"get", "delete"} /\ PathOf(last).qs # <<>>) =>
        LET req == last.requests[1]
            qs == PathOf(last).qs
            o == last.args.options
            token == IF HasToken(last.client) THEN {"access_token"} ELSE {}
        IN  /\ DOMAIN req.query = PathKeys(last) \cup DOMAIN o \cup token
            /\ \A k \in DOMAIN o \ token :
                  req.query[k] = IF IsListOfStrings(o[k]) THEN CommaJoined(req, o[k])
                                 ELSE Unchanged(req, o[k])
            /\ \A k \in PathKeys(last) \ (DOMAIN o \cup token) :
                  \E i \in 1..Len(qs) : qs[i][1] = k /\ req.query[k] = qs[i][2]

\* C7 as stated: in get, post and search every caller value that is a
\* sequence of strings is sent as its elements joined with commas, in order,
\* and every other value is sent unchanged.
C7_ListsJoinedAsStated ==
    last.op \in {"get", "post", "search"} =>
        \A i \in 1..Len(last.requests) : \A k \in CallerKeys(last) :
            LET req == last.requests[i]
                v == last.args.options[k]
            IN  /\ k \in DOMAIN req.query \cup DOMAIN req.data
                /\ Sent(req, k) = IF IsSequenceOfStrings(v) THEN CommaJoined(req, v)
                                  ELSE Unchanged(req, v)

\* C7 amended: every caller value that is a list of strings is sent as its
\* elements joined with commas, in order, and every other value, a tuple of
\* strings included, is sent unchanged; the key access_token of a client that
\* has a token is excepted, it carries the token.
C7_ListsJoined ==
    last.op \in {"get", "post", "search"} =>
        \A i \in 1..Len(last.requests) :
            \A k \in CallerKeys(last) \
                     (IF HasToken(last.client) THEN {"access_token"} ELSE {}) :
                LET req == last.requests[i]
                    v == last.args.options[k]
                IN  /\ k \in DOMAIN req.query \cup DOMAIN req.data
                    /\ Sent(req, k) = IF IsListOfStrings(v) THEN CommaJoined(req, v)
                                      ELSE Unchanged(req, v)

\* a GET whose option fields = ['a', 'b'] went out as fields=a,b
C7_Witness ==
    /\ last.op = "get"
    /\ "fields" \in CallerKeys(last)
    /\ last.args.options["fields"] = PyList(<<PyStr("a"), PyStr("b")>>)
    /\ Len(last.requests) = 1
    /\ last.requests[1].query["fields"] = "a,b"

\* the last call got a response body from the transport
GotBody == Len(last.responses) = 1 /\ last.responses[1].ok

\* the body of the response to the last call, and what it decodes to
Body == last.responses[1].content
Json == json_loads(Body)

\* the body is valid JSON and decodes to a mapping
DecodesToMapping == GotBody /\ Json.ok /\ Json.v.t = "dict"

\* C3: in get, post and delete a body that decodes to false makes the call
\* raise APIError and return nothing; a body that decodes to true makes it
\* return True.
C3_FalseRaisesTrueReturns ==
    (last.op \in {"get", "post", "delete"} /\ GotBody /\ Json.ok) =>
        /\ Json.v = PyBool(FALSE) =>
              last.result.outcome = "APIError" /\ last.result.value = NoValue
        /\ Json.v = PyBool(TRUE) => last.result = Return(PyBool(TRUE))

\* a delete answered with the body false has raised APIError
C3_Witness ==
    /\ last.op = "delete"
    /\ GotBody
    /\ Body = "false"
    /\ last.result.outcome = "APIError"
    /\ last.result.value = NoValue

\* C4: in every verb, a body that decodes to a mapping with the key error,
\* whose value has a message, makes the call raise APIError with exactly that
\* message and return nothing, with or without a data key beside it.
C4_ErrorEnvelopeRaises ==
    (/\ VerbCall
     /\ DecodesToMapping
     /\ "error" \in DOMAIN Json.v.d
     /\ Json.v.d["error"].t = "dict"
     /\ "message" \in DOMAIN Json.v.d["error"].d) =>
        last.result = [outcome |-> "APIError", value |-> NoValue,
                       message |-> Json.v.d["error"].d["message"]]

\* a search answered with an error envelope beside a data key has raised
\* APIError('bad token')
C4_Witness ==
    /\ last.op = "search"
    /\ DecodesToMapping
    /\ {"error", "data"} \subseteq DOMAIN Json.v.d
    /\ last.result.outcome = "APIError"
    /\ last.result.message = PyUnicode("bad token")

\* C8: a body that decodes to a mapping with the key data and no key error is
\* normalized to the value under data alone; a mapping with neither key is
\* normalized to itself.
C8_EnvelopeStripped ==
    (VerbCall /\ DecodesToMapping /\ "error" \notin DOMAIN Json.v.d) =>
        IF "data" \in DOMAIN Json.v.d
        THEN last.normalized = Return(Json.v.d["data"])
        ELSE last.normalized = Return(Json.v)

\* the body {"data": [1, 2, 3], "paging": {}} has been normalized to [1, 2, 3]
C8_Witness ==
    /\ VerbCall
    /\ DecodesToMapping
    /\ {"data", "paging"} \subseteq DOMAIN Json.v.d
    /\ last.normalized = Return(PyList(<<PyInt(1), PyInt(2), PyInt(3)>>))

\* C9: normalization raises APIError or returns a boolean, a mapping or the
\* raw text; it returns raw text exactly when the body is not valid JSON, and
\* then the body unchanged.  Valid JSON that is neither a boolean nor a
\* mapping still yields one of the three.
C9_ThreeShapes ==
    (VerbCall /\ GotBody) =>
        \/ last.normalized.outcome = "APIError"
        \/ /\ last.normalized.outcome = "return"
           /\ last.normalized.value.t \in {"bool", "dict", "str"}
           /\ last.normalized.value.t = "str" <=> ~Json.ok
           /\ ~Json.ok => last.normalized.value = PyStr(Body)

\* the client's token is absent: None or the empty string
Absent(v) == v = None \/ v = PyStr("")

\* C10, at construction: an explicit token is the client's token and the
\* parser is not called; the parser is called only when the token is absent
\* and signed request and secret are both present, and the token is then the
\* parsed oauth_token, or absent when the key is missing; in every other case
\* the token is absent.
C10_AtConstruction ==
    last.op = "init" =>
        LET a == last.args
            token == oauth_token[last.client]
            material == ~Absent(a.signed_request) /\ ~Absent(a.app_secret)
        IN  /\ ~Absent(a.oauth_token) =>
                  token = a.oauth_token /\ last.parser_calls = <<>>
            /\ Len(last.parser_calls) <= 1
            /\ last.parser_calls # <<>> <=> (Absent(a.oauth_token) /\ material)
            /\ last.parser_calls # <<>> =>
                  /\ last.parser_calls[1].signed_request = a.signed_request
                  /\ last.parser_calls[1].app_secret = a.app_secret
                  /\ LET sr == last.parser_calls[1].sr
                     IN  IF "oauth_token" \in DOMAIN sr THEN token = sr["oauth_token"]
                         ELSE token = None
            /\ (Absent(a.oauth_token) /\ ~material) => Absent(token)

=============================================================================
